---- MODULE Spec2Model ----
(***************************************************************************)
(* The two notebooks of the repository, each run once top to bottom in a   *)
(* fresh kernel:                                                           *)
(*   "sft"  : 1_instruction_tuning/notebooks/sft_finetuning_example_turtle *)
(*   "lora" : the LoRA adapter fine-tuning notebook (unnamed/part_000)     *)
(* A step of the model is one statement of a code cell.  The state is the  *)
(* kernel's name bindings (env), the objects they refer to (heap), the     *)
(* local file system, the hub, the cell outputs printed so far and the     *)
(* history of the library calls made.  trainer.train() is the one call     *)
(* that takes many steps: one per optimizer step.                          *)
(***************************************************************************)
EXTENDS Integers, Sequences, FiniteSets, TLC

VARIABLES
    nb,      \* which notebook this kernel runs: "sft" or "lora"
    host,    \* the machine: [cuda |-> BOOLEAN, mps |-> BOOLEAN]
    pc,      \* the statement to execute next
    env,     \* the kernel's global names (0 / "" / <<>> when unbound)
    heap,    \* the objects: heap[id] is a record with a kind field
    fs,      \* files on disk: records [dir, sub, file, steps]
    hub,     \* files pushed to the hub: records [repo, file, steps]
    out,     \* what the cells printed, in order
    calls    \* the library calls made so far, in order

vars == <<nb, host, pc, env, heap, fs, hub, out, calls>>

(***************************************************************************)
(* Numbers the notebooks set or recorded.  LoraStepsPerEpoch is read off   *)
(* the recorded progress of the LoRA run, 146 steps over 2 epochs of the   *)
(* packed training set.                                                    *)
(***************************************************************************)
TrainRows == 2260
TestRows == 119
LoraStepsPerEpoch == 73
MaxNewTokens == 100
SeparatorWidth == 80

HaikuPrompt == "Write a haiku about programming"
BaseModelName == "HuggingFaceTB/SmolLM2-135M"
DatasetPath == "HuggingFaceTB/smoltalk"
DatasetName == "everyday-conversations"

(***************************************************************************)
(* The kernel's names before any cell has run.                             *)
(***************************************************************************)
NoText == [template |-> "", messages |-> <<>>, tokenize |-> FALSE,
           generation_prompt |-> FALSE]
NoInputs == [text |-> NoText, tokenizer |-> 0, device |-> ""]
NoGen == [model |-> 0, steps |-> 0, chat |-> FALSE,
          input |-> NoText, max_new_tokens |-> 0, at |-> 0]

EmptyEnv ==
    [ device |-> "", model_name |-> "", model |-> 0, tokenizer |-> 0,
      finetune_name |-> "", finetune_tags |-> <<>>,
      prompt |-> "", messages |-> <<>>, formatted_prompt |-> NoText,
      inputs |-> NoInputs, outputs |-> NoGen,
      ds |-> 0, dataset |-> 0, sft_config |-> 0, args |-> 0, trainer |-> 0,
      wandb |-> 0, rank_dimension |-> 0, lora_alpha |-> 0, lora_dropout |-> 0,
      peft_config |-> 0, max_seq_length |-> 0,
      merged_model |-> 0, pipe |-> 0,
      prompts |-> <<>>, i |-> 0, response |-> NoGen ]

(***************************************************************************)
(* Helpers of the model.                                                   *)
(***************************************************************************)
Goto(from, to) == pc = from /\ pc' = to

Called(op) == calls' = Append(calls, op)

NewId == Len(heap) + 1

CeilDiv(a, b) == (a + b - 1) \div b

IndexOf(s, x) ==
    IF \E k \in 1..Len(s) : s[k] = x
    THEN CHOOSE k \in 1..Len(s) : s[k] = x /\ \A j \in 1..(k - 1) : s[j] # x
    ELSE 0

LastIndexOf(s, x) ==
    IF \E k \in 1..Len(s) : s[k] = x
    THEN CHOOSE k \in 1..Len(s) : s[k] = x /\ \A j \in (k + 1)..Len(s) : s[j] # x
    ELSE 0

Count(s, x) == Cardinality({k \in 1..Len(s) : s[k] = x})

\* one printed item: a literal line, a decoded sample, or a part of the
\* test loop's report
Printed(kind, text, i, gen) == [kind |-> kind, text |-> text, i |-> i, gen |-> gen]
Literal(text) == Printed("literal", text, 0, NoGen)
Sample(gen) == Printed("sample", "", 0, gen)

\* the files of directory dir (sub = 0) or of its checkpoint-<sub> folder
Files(dir, sub) == {f.file : f \in {g \in fs : g.dir = dir /\ g.sub = sub}}

WriteFiles(disk, dir, sub, names, steps) ==
    {f \in disk : ~(f.dir = dir /\ f.sub = sub /\ f.file \in names)}
    \cup {[dir |-> dir, sub |-> sub, file |-> n, steps |-> steps] : n \in names}

FileSteps(dir, file) ==
    (CHOOSE f \in fs : f.dir = dir /\ f.sub = 0 /\ f.file = file).steps

(***************************************************************************)
(* The library calls the notebooks make, by what they do to the state.     *)
(***************************************************************************)
\* device = "cuda" if ... else "mps" if ... else "cpu"
Device == IF host.cuda THEN "cuda" ELSE IF host.mps THEN "mps" ELSE "cpu"

\* AutoModelForCausalLM.from_pretrained(pretrained_model_name_or_path=name)
\* .to(device): no quantization_config, no torch_dtype is passed
LoadedBaseModel(name, device) ==
    [ kind |-> "model", cls |-> "AutoModelForCausalLM", src |-> name,
      base |-> 0, chat |-> FALSE, quant |-> "none", dtype |-> "float32",
      device |-> device, steps |-> 0, lora |-> FALSE, merged |-> FALSE ]

\* AutoTokenizer.from_pretrained(src): a tokenizer saved by the trainer
\* carries the chat template it was saved with
LoadedTokenizer(src, chat) ==
    [kind |-> "tokenizer", src |-> src, chat |-> chat]

\* tokenizer.apply_chat_template(messages, tokenize=..., add_generation_prompt=...)
ApplyChatTemplate(tok, messages, tokenize, generation_prompt) ==
    [ template |-> IF heap[tok].chat THEN "chatml" ELSE "default",
      messages |-> messages, tokenize |-> tokenize,
      generation_prompt |-> generation_prompt ]

\* model.generate(**inputs, max_new_tokens=n) and pipe(text): the sample is
\* decided by the weights of the model object at the time of the call
Generate(m, text, n) ==
    [ model |-> m, steps |-> heap[m].steps, chat |-> heap[m].chat,
      input |-> text, max_new_tokens |-> n, at |-> Len(calls) + 1 ]

UserMessage(content) == <<[role |-> "user", content |-> content]>>

(***************************************************************************)
(* The statements the two notebooks share word for word.                   *)
(***************************************************************************)
\* login()
Login(from, to) ==
    /\ Goto(from, to)
    /\ Called("login")
    /\ UNCHANGED <<nb, host, env, heap, fs, hub, out>>

\* device = (...); model_name = "HuggingFaceTB/SmolLM2-135M"
SetDevice(from, to) ==
    /\ Goto(from, to)
    /\ env' = [env EXCEPT !.device = Device, !.model_name = BaseModelName]
    /\ UNCHANGED <<nb, host, heap, fs, hub, out, calls>>

\* model = AutoModelForCausalLM.from_pretrained(...).to(device)
LoadModel(from, to) ==
    /\ Goto(from, to)
    /\ heap' = Append(heap, LoadedBaseModel(env.model_name, env.device))
    /\ env' = [env EXCEPT !.model = NewId]
    /\ Called("load_model")
    /\ UNCHANGED <<nb, host, fs, hub, out>>

\* tokenizer = AutoTokenizer.from_pretrained(pretrained_model_name_or_path=model_name)
LoadTokenizer(from, to) ==
    /\ Goto(from, to)
    /\ heap' = Append(heap, LoadedTokenizer(env.model_name, FALSE))
    /\ env' = [env EXCEPT !.tokenizer = NewId]
    /\ Called("load_tokenizer")
    /\ UNCHANGED <<nb, host, fs, hub, out>>

\* model, tokenizer = setup_chat_format(model=model, tokenizer=tokenizer):
\* the call changes both objects in place and returns them
SetupChatFormat(from, to) ==
    /\ Goto(from, to)
    /\ env.model # 0 /\ env.tokenizer # 0
    /\ heap' = [heap EXCEPT ![env.model].chat = TRUE,
                            ![env.tokenizer].chat = TRUE]
    /\ env' = [env EXCEPT !.model = env.model, !.tokenizer = env.tokenizer]
    /\ Called("setup_chat_format")
    /\ UNCHANGED <<nb, host, fs, hub, out>>

\* finetune_name = name; finetune_tags = ["smol-course", "module_1"]
SetFinetuneName(from, to, name) ==
    /\ Goto(from, to)
    /\ env' = [env EXCEPT !.finetune_name = name,
                          !.finetune_tags = <<"smol-course", "module_1">>]
    /\ UNCHANGED <<nb, host, heap, fs, hub, out, calls>>

\* prompt = "Write a haiku about programming"
\* messages = [{"role": "user", "content": prompt}]
SetPrompt(from, to) ==
    /\ Goto(from, to)
    /\ env' = [env EXCEPT !.prompt = HaikuPrompt,
                          !.messages = UserMessage(HaikuPrompt)]
    /\ UNCHANGED <<nb, host, heap, fs, hub, out, calls>>

\* formatted_prompt = tokenizer.apply_chat_template(messages, tokenize=False)
FormatPrompt(from, to) ==
    /\ Goto(from, to)
    /\ env.tokenizer # 0
    /\ env' = [env EXCEPT !.formatted_prompt =
                  ApplyChatTemplate(env.tokenizer, env.messages, FALSE, FALSE)]
    /\ Called("apply_chat_template")
    /\ UNCHANGED <<nb, host, heap, fs, hub, out>>

\* inputs = tokenizer(formatted_prompt, return_tensors="pt").to(device)
Tokenize(from, to) ==
    /\ Goto(from, to)
    /\ env.tokenizer # 0
    /\ env' = [env EXCEPT !.inputs = [text |-> env.formatted_prompt,
                                      tokenizer |-> env.tokenizer,
                                      device |-> env.device]]
    /\ UNCHANGED <<nb, host, heap, fs, hub, out, calls>>

\* outputs = model.generate(**inputs, max_new_tokens=100)
ModelGenerate(from, to) ==
    /\ Goto(from, to)
    /\ env.model # 0
    /\ env' = [env EXCEPT !.outputs =
                  Generate(env.model, env.inputs.text, MaxNewTokens)]
    /\ Called("generate")
    /\ UNCHANGED <<nb, host, heap, fs, hub, out>>

\* print("Before training:") / print("After training:")
PrintLabel(from, to, text) ==
    /\ Goto(from, to)
    /\ out' = Append(out, Literal(text))
    /\ UNCHANGED <<nb, host, env, heap, fs, hub, calls>>

\* print(tokenizer.decode(outputs[0], skip_special_tokens=True))
PrintDecoded(from, to) ==
    /\ Goto(from, to)
    /\ env.tokenizer # 0
    /\ out' = Append(out, Sample(env.outputs))
    /\ UNCHANGED <<nb, host, env, heap, fs, hub, calls>>

\* load_dataset(path="HuggingFaceTB/smoltalk", name="everyday-conversations")
LoadedDataset ==
    [ kind |-> "dataset", path |-> DatasetPath, name |-> DatasetName,
      train |-> TrainRows, test |-> TestRows, reads |-> <<>> ]

\* dataset[split]: the objects after a split of the dataset has been taken,
\* the dataset remembering which split was taken and when
ReadSplit(h, d, split) ==
    [h EXCEPT ![d].reads = Append(@, [split |-> split, at |-> Len(calls) + 1])]

\* display(HTML(...)); app.kernel.do_shutdown(True): the kernel restarts and
\* its names and objects are gone; files, hub and printed output stay
KernelShutdown(from) ==
    /\ Goto(from, "done")
    /\ env' = EmptyEnv
    /\ heap' = <<>>
    /\ Called("do_shutdown")
    /\ UNCHANGED <<nb, host, fs, hub, out>>

(***************************************************************************)
(* SFTConfig and the trainer.  Rates are in units of 1e-6 (learning_rate), *)
(* 1e-2 (warmup_ratio, lora_dropout) and 1e-1 (max_grad_norm).             *)
(***************************************************************************)
\* what SFTConfig(...) holds for the arguments a notebook does not pass
SFTConfigDefaults ==
    [ kind |-> "sft_config", output_dir |-> "", max_steps |-> -1,
      num_train_epochs |-> 3, per_device_train_batch_size |-> 8,
      gradient_accumulation_steps |-> 1, gradient_checkpointing |-> FALSE,
      optim |-> "adamw_torch", learning_rate |-> 50, max_grad_norm |-> 10,
      warmup_ratio |-> 0, lr_scheduler_type |-> "linear",
      logging_steps |-> 500, save_strategy |-> "steps", save_steps |-> 500,
      eval_strategy |-> "no", eval_steps |-> 0, bf16 |-> FALSE,
      push_to_hub |-> FALSE, hub_model_id |-> "", report_to |-> "all",
      use_mps_device |-> FALSE ]

SFTConfig(given) ==
    [k \in DOMAIN SFTConfigDefaults |->
        IF k \in DOMAIN given THEN given[k] ELSE SFTConfigDefaults[k]]

\* SFTTrainer(model=..., args=..., train_dataset=..., ...): with a
\* peft_config the model is wrapped in a PeftModel whose LoRA layers are
\* put into the given model object in place
PeftWrapper(base, src, steps) ==
    [ kind |-> "model", cls |-> "PeftModel", src |-> src, base |-> base,
      chat |-> heap[base].chat, quant |-> heap[base].quant,
      dtype |-> heap[base].dtype, device |-> heap[base].device,
      steps |-> steps, lora |-> TRUE, merged |-> FALSE ]

NewTrainer(model, args, train_rows, eval_rows, tokenizer, peft, packing, spe) ==
    [ kind |-> "trainer", model |-> model, args |-> args,
      train_rows |-> train_rows, eval_rows |-> eval_rows,
      tokenizer |-> tokenizer, peft_config |-> peft, packing |-> packing,
      steps_per_epoch |-> spe, max_steps |-> 0, global_step |-> 0,
      state |-> "new", logged |-> {}, saved |-> {}, evaluated |-> {},
      lr |-> 0 ]

\* optimizer steps in one pass over the training data
StepsPerEpoch(rows, a) ==
    CeilDiv(CeilDiv(rows, a.per_device_train_batch_size),
            a.gradient_accumulation_steps)

\* max_steps, when given, overrides num_train_epochs
TotalSteps(t) ==
    LET a == heap[t.args]
    IN  IF a.max_steps > 0 THEN a.max_steps
        ELSE a.num_train_epochs * t.steps_per_epoch

\* the epochs completed after the trainer's global_step steps
EpochsDone(t) == t.global_step \div t.steps_per_epoch

\* the files a save of the trainer's model writes: a PeftModel saves its
\* adapter alone, any other model its full weights
ModelFiles(m) ==
    IF heap[m].cls = "PeftModel"
    THEN {"adapter_model.safetensors", "adapter_config.json"}
    ELSE {"model.safetensors", "config.json"}

\* the tokenizer is saved with the model, its chat template with it
TokenizerFiles(tok) ==
    IF heap[tok].chat THEN {"tokenizer.json", "chat_template.jinja"}
    ELSE {"tokenizer.json"}

TrainerFiles(t) ==
    ModelFiles(t.model) \cup TokenizerFiles(t.tokenizer) \cup {"training_args.bin"}

\* the steps of warmup a schedule with warmup takes: ceil(steps * ratio)
WarmupSteps(t) == CeilDiv(t.max_steps * heap[t.args].warmup_ratio, 100)

\* the learning rate, in units of 1e-9, after k steps of the scheduler that
\* lr_scheduler_type names: "constant" holds the rate from the first step on
\* and takes no warmup, "constant_with_warmup" climbs to it over the warmup
\* steps, "linear" climbs over the warmup steps and then falls to 0
SchedulerRate(t, k) ==
    LET a == heap[t.args]
        peak == a.learning_rate * 1000
        w == WarmupSteps(t)
    IN  CASE a.lr_scheduler_type = "constant" -> peak
          [] a.lr_scheduler_type = "constant_with_warmup" ->
                IF k < w THEN (peak * k) \div w ELSE peak
          [] OTHER ->
                IF k < w THEN (peak * k) \div w
                ELSE (peak * (t.max_steps - k)) \div (t.max_steps - w)

ShouldLog(t, step) == step % heap[t.args].logging_steps = 0

ShouldSave(t, step) ==
    LET a == heap[t.args]
    IN  \/ a.save_strategy = "steps" /\ step % a.save_steps = 0
        \/ a.save_strategy = "epoch" /\ step % t.steps_per_epoch = 0

ShouldEvaluate(t, step) ==
    LET a == heap[t.args]
    IN  \/ a.eval_strategy = "steps" /\ a.eval_steps > 0
           /\ step % a.eval_steps = 0
        \/ a.eval_strategy = "epoch" /\ step % t.steps_per_epoch = 0

HubRepo(a) == IF a.hub_model_id # "" THEN a.hub_model_id ELSE a.output_dir

PushFiles(remote, repo, names, steps) ==
    {f \in remote : ~(f.repo = repo /\ f.file \in names)}
    \cup {[repo |-> repo, file |-> n, steps |-> steps] : n \in names}

\* trainer.train() is entered
TrainBegin(from, to) ==
    /\ Goto(from, to)
    /\ env.trainer # 0
    /\ heap' = [heap EXCEPT ![env.trainer].max_steps = TotalSteps(heap[env.trainer]),
                            ![env.trainer].state = "training"]
    /\ Called("train.begin")
    /\ UNCHANGED <<nb, host, env, fs, hub, out>>

\* one optimizer step of the training loop, with the logging, checkpoint
\* and evaluation that the configuration asks for at this step
TrainStep(at) ==
    /\ pc = at /\ pc' = at
    /\ LET t == heap[env.trainer]
           a == heap[t.args]
           step == t.global_step + 1
       IN  /\ t.global_step < t.max_steps
           /\ heap' = [heap EXCEPT
                  ![env.trainer].global_step = step,
                  ![env.trainer].lr = SchedulerRate(t, step - 1),
                  ![env.trainer].logged =
                      IF ShouldLog(t, step) THEN @ \cup {step} ELSE @,
                  ![env.trainer].saved =
                      IF ShouldSave(t, step) THEN @ \cup {step} ELSE @,
                  ![env.trainer].evaluated =
                      IF ShouldEvaluate(t, step) THEN @ \cup {step} ELSE @,
                  ![t.model].steps = @ + 1]
           /\ fs' = IF ShouldSave(t, step)
                    THEN WriteFiles(fs, a.output_dir, step, TrainerFiles(t), step)
                    ELSE fs
           /\ hub' = IF ShouldSave(t, step) /\ a.push_to_hub
                     THEN PushFiles(hub, HubRepo(a), TrainerFiles(t), step)
                     ELSE hub
    /\ UNCHANGED <<nb, host, env, out, calls>>

\* trainer.train() returns
TrainEnd(from, to) ==
    /\ Goto(from, to)
    /\ heap[env.trainer].global_step = heap[env.trainer].max_steps
    /\ heap' = [heap EXCEPT ![env.trainer].state = "trained"]
    /\ Called("train.end")
    /\ UNCHANGED <<nb, host, env, fs, hub, out>>

\* trainer.save_model(dir): dir defaults to args.output_dir; the model is
\* pushed to the hub as well when args.push_to_hub is set
SaveModel(from, to, dir) ==
    /\ Goto(from, to)
    /\ env.trainer # 0
    /\ LET t == heap[env.trainer]
           a == heap[t.args]
           d == IF dir = "" THEN a.output_dir ELSE dir
       IN  /\ fs' = WriteFiles(fs, d, 0, TrainerFiles(t), heap[t.model].steps)
           /\ hub' = IF a.push_to_hub
                     THEN PushFiles(hub, HubRepo(a), TrainerFiles(t),
                                    heap[t.model].steps)
                     ELSE hub
    /\ Called("save_model")
    /\ UNCHANGED <<nb, host, env, heap, out>>

\* trainer.push_to_hub(tags=finetune_tags): saves the model to
\* args.output_dir and uploads that folder to the hub repository
PushToHub(from, to) ==
    /\ Goto(from, to)
    /\ env.trainer # 0
    /\ LET t == heap[env.trainer]
           a == heap[t.args]
       IN  /\ fs' = WriteFiles(fs, a.output_dir, 0, TrainerFiles(t),
                               heap[t.model].steps)
           /\ hub' = PushFiles(hub, HubRepo(a), TrainerFiles(t),
                               heap[t.model].steps)
    /\ Called("push_to_hub")
    /\ UNCHANGED <<nb, host, env, heap, out>>

(***************************************************************************)
(* The SFT notebook, cell by cell (cells are numbered from 0 as they lie   *)
(* in the notebook file; markdown cells and comment-only cells run         *)
(* nothing).                                                               *)
(***************************************************************************)
SftFinetuneName == "SmolLM2-FT-Smoltalk"
SftOutputDir == "./sft_output"
SftSaveDir == "./SmolLM2-FT-Smoltalk"

\* cell 1
Sft_c1_login == Login("sft.c1.login", "sft.c2.device")

\* cell 2
Sft_c2_device == SetDevice("sft.c2.device", "sft.c2.model")
Sft_c2_model == LoadModel("sft.c2.model", "sft.c2.tokenizer")
Sft_c2_tokenizer == LoadTokenizer("sft.c2.tokenizer", "sft.c2.chat_format")
Sft_c2_chat_format == SetupChatFormat("sft.c2.chat_format", "sft.c2.names")
Sft_c2_names == SetFinetuneName("sft.c2.names", "sft.c4.prompt", SftFinetuneName)

\* cell 4: the base model before training
Sft_c4_prompt == SetPrompt("sft.c4.prompt", "sft.c4.format")
Sft_c4_format == FormatPrompt("sft.c4.format", "sft.c4.inputs")
Sft_c4_inputs == Tokenize("sft.c4.inputs", "sft.c4.generate")
Sft_c4_generate == ModelGenerate("sft.c4.generate", "sft.c4.print_label")
Sft_c4_print_label ==
    PrintLabel("sft.c4.print_label", "sft.c4.print_sample", "Before training:")
Sft_c4_print_sample == PrintDecoded("sft.c4.print_sample", "sft.c6.dataset")

\* cell 6: ds = load_dataset(...)
Sft_c6_dataset ==
    /\ Goto("sft.c6.dataset", "sft.c9.config")
    /\ heap' = Append(heap, LoadedDataset)
    /\ env' = [env EXCEPT !.ds = NewId]
    /\ Called("load_dataset")
    /\ UNCHANGED <<nb, host, fs, hub, out>>

\* a variant of cell 9 for C13: save_steps is not passed, and the
\* checkpoints come at the library's own interval
SftConfigGiven_no_save_steps ==
    [ output_dir |-> "./sft_output", max_steps |-> 1000,
      per_device_train_batch_size |-> 4, learning_rate |-> 50,
      logging_steps |-> 10, eval_steps |-> 50,
      use_mps_device |-> (env.device = "mps"),
      hub_model_id |-> env.finetune_name ]

\* cell 9: sft_config = SFTConfig(...); evaluation_strategy is commented out
SftConfigGiven ==
    [ output_dir |-> SftOutputDir, max_steps |-> 1000,
      per_device_train_batch_size |-> 4, learning_rate |-> 50,
      logging_steps |-> 10, save_steps |-> 100, eval_steps |-> 50,
      use_mps_device |-> (env.device = "mps"),
      hub_model_id |-> env.finetune_name ]

Sft_c9_config ==
    /\ Goto("sft.c9.config", "sft.c9.trainer")
    /\ heap' = Append(heap, SFTConfig(SftConfigGiven))
    /\ env' = [env EXCEPT !.sft_config = NewId]
    /\ Called("SFTConfig")
    /\ UNCHANGED <<nb, host, fs, hub, out>>

\* cell 9: trainer = SFTTrainer(model=model, args=sft_config,
\*     train_dataset=ds["train"], tokenizer=tokenizer, eval_dataset=ds["test"])
Sft_c9_trainer ==
    /\ Goto("sft.c9.trainer", "sft.c11.train")
    /\ env.model # 0 /\ env.sft_config # 0 /\ env.ds # 0 /\ env.tokenizer # 0
    /\ heap' = Append(ReadSplit(ReadSplit(heap, env.ds, "train"), env.ds, "test"),
           NewTrainer(env.model, env.sft_config, heap[env.ds].train,
                      heap[env.ds].test, env.tokenizer, 0, FALSE,
                      StepsPerEpoch(heap[env.ds].train, heap[env.sft_config])))
    /\ env' = [env EXCEPT !.trainer = NewId]
    /\ Called("SFTTrainer")
    /\ UNCHANGED <<nb, host, fs, hub, out>>

\* cell 11: trainer.train(); trainer.save_model(f"./{finetune_name}")
Sft_c11_train == TrainBegin("sft.c11.train", "sft.c11.training")
Sft_c11_step == TrainStep("sft.c11.training")
Sft_c11_trained == TrainEnd("sft.c11.training", "sft.c11.save_model")
Sft_c11_save_model == SaveModel("sft.c11.save_model", "sft.c12.push", SftSaveDir)

\* a variant of cell 12 for C1: the run goes on to the shutdown cell and
\* never tests the fine-tuned model
Sft_c12_push_skips_test == PushToHub("sft.c12.push", "sft.c15.shutdown")

\* cell 12: trainer.push_to_hub(tags=finetune_tags)
Sft_c12_push == PushToHub("sft.c12.push", "sft.c14.prompt")

\* a variant of cell 14 for C4: the cell begins by loading the base model
\* again under the name model
Sft_c14_reloads_model == LoadModel("sft.c14.prompt", "sft.c14.format")

\* a variant of cell 14 for C3: the template call asks for a generation
\* prompt, which the "Before training" cell does not
Sft_c14_format_generation_prompt ==
    /\ Goto("sft.c14.format", "sft.c14.inputs")
    /\ env.tokenizer # 0
    /\ env' = [env EXCEPT !.formatted_prompt =
                  ApplyChatTemplate(env.tokenizer, env.messages, FALSE, TRUE)]
    /\ Called("apply_chat_template")
    /\ UNCHANGED <<nb, host, heap, fs, hub, out>>

\* cell 14: the fine-tuned model on the same prompt
Sft_c14_prompt == SetPrompt("sft.c14.prompt", "sft.c14.format")
Sft_c14_format == FormatPrompt("sft.c14.format", "sft.c14.inputs")
Sft_c14_inputs == Tokenize("sft.c14.inputs", "sft.c14.generate")
Sft_c14_generate == ModelGenerate("sft.c14.generate", "sft.c14.print_label")
Sft_c14_print_label ==
    PrintLabel("sft.c14.print_label", "sft.c14.print_sample", "After training:")
Sft_c14_print_sample == PrintDecoded("sft.c14.print_sample", "sft.c15.shutdown")

\* cell 15
Sft_c15_shutdown == KernelShutdown("sft.c15.shutdown")

SftNext ==
    \/ Sft_c1_login
    \/ Sft_c2_device \/ Sft_c2_model \/ Sft_c2_tokenizer
    \/ Sft_c2_chat_format \/ Sft_c2_names
    \/ Sft_c4_prompt \/ Sft_c4_format \/ Sft_c4_inputs \/ Sft_c4_generate
    \/ Sft_c4_print_label \/ Sft_c4_print_sample
    \/ Sft_c6_dataset
    \/ Sft_c9_config \/ Sft_c9_trainer
    \/ Sft_c11_train \/ Sft_c11_step \/ Sft_c11_trained \/ Sft_c11_save_model
    \/ Sft_c12_push
    \/ Sft_c14_prompt \/ Sft_c14_format \/ Sft_c14_inputs \/ Sft_c14_generate
    \/ Sft_c14_print_label \/ Sft_c14_print_sample
    \/ Sft_c15_shutdown

(***************************************************************************)
(* The LoRA notebook, cell by cell.                                        *)
(***************************************************************************)
LoraFinetuneName == "SmolLM2-FT-MyDataset"

\* cell 2
Lora_c2_login == Login("lora.c2.login", "lora.c4.dataset")

\* cell 4: dataset = load_dataset(...)
Lora_c4_dataset ==
    /\ Goto("lora.c4.dataset", "lora.c6.device")
    /\ heap' = Append(heap, LoadedDataset)
    /\ env' = [env EXCEPT !.dataset = NewId]
    /\ Called("load_dataset")
    /\ UNCHANGED <<nb, host, fs, hub, out>>

\* a variant of cell 6 for C2: setup_chat_format is left out
Lora_c6_no_chat_format ==
    /\ Goto("lora.c6.chat_format", "lora.c6.names")
    /\ UNCHANGED <<nb, host, env, heap, fs, hub, out, calls>>

\* cell 6
Lora_c6_device == SetDevice("lora.c6.device", "lora.c6.model")
Lora_c6_model == LoadModel("lora.c6.model", "lora.c6.tokenizer")
Lora_c6_tokenizer == LoadTokenizer("lora.c6.tokenizer", "lora.c6.chat_format")
Lora_c6_chat_format == SetupChatFormat("lora.c6.chat_format", "lora.c6.names")
Lora_c6_names ==
    SetFinetuneName("lora.c6.names", "lora.c7.prompt", LoraFinetuneName)

\* cell 7: the base model before training
Lora_c7_prompt == SetPrompt("lora.c7.prompt", "lora.c7.format")
Lora_c7_format == FormatPrompt("lora.c7.format", "lora.c7.inputs")
Lora_c7_inputs == Tokenize("lora.c7.inputs", "lora.c7.generate")
Lora_c7_generate == ModelGenerate("lora.c7.generate", "lora.c7.print_label")
Lora_c7_print_label ==
    PrintLabel("lora.c7.print_label", "lora.c7.print_sample", "Before training:")
Lora_c7_print_sample == PrintDecoded("lora.c7.print_sample", "lora.c9.wandb")

\* cell 9: wandb.init(project=..., config={...}, mode="offline")
WandbConfigGiven ==
    [ rank_dimension |-> 16, lora_alpha |-> 32, lora_dropout |-> 10,
      learning_rate |-> 200, num_train_epochs |-> 3 ]

Lora_c9_wandb ==
    /\ Goto("lora.c9.wandb", "lora.c9.params")
    /\ heap' = Append(heap, [kind |-> "wandb_run",
                             project |-> "smoltalk-lora-tuning",
                             config |-> WandbConfigGiven,
                             mode |-> "offline", finished |-> FALSE])
    /\ env' = [env EXCEPT !.wandb = NewId]
    /\ Called("wandb.init")
    /\ UNCHANGED <<nb, host, fs, hub, out>>

\* cell 9: rank_dimension = 6; lora_alpha = 8; lora_dropout = 0.05
Lora_c9_params ==
    /\ Goto("lora.c9.params", "lora.c9.peft_config")
    /\ env' = [env EXCEPT !.rank_dimension = 6, !.lora_alpha = 8,
                          !.lora_dropout = 5]
    /\ UNCHANGED <<nb, host, heap, fs, hub, out, calls>>

\* cell 9: peft_config = LoraConfig(r=wandb.config.rank_dimension, ...)
LoraConfigGiven ==
    [ kind |-> "lora_config",
      r |-> heap[env.wandb].config.rank_dimension,
      lora_alpha |-> heap[env.wandb].config.lora_alpha,
      lora_dropout |-> heap[env.wandb].config.lora_dropout,
      bias |-> "none", target_modules |-> "all-linear",
      task_type |-> "CAUSAL_LM" ]

Lora_c9_peft_config ==
    /\ Goto("lora.c9.peft_config", "lora.c11.args")
    /\ env.wandb # 0
    /\ heap' = Append(heap, LoraConfigGiven)
    /\ env' = [env EXCEPT !.peft_config = NewId]
    /\ Called("LoraConfig")
    /\ UNCHANGED <<nb, host, fs, hub, out>>

\* cell 11: args = SFTConfig(...)
LoraArgsGiven ==
    [ output_dir |-> env.finetune_name, num_train_epochs |-> 2,
      per_device_train_batch_size |-> 2, gradient_accumulation_steps |-> 2,
      gradient_checkpointing |-> TRUE, optim |-> "adamw_torch_fused",
      learning_rate |-> 200, max_grad_norm |-> 3, warmup_ratio |-> 3,
      lr_scheduler_type |-> "constant", logging_steps |-> 10,
      save_strategy |-> "epoch", bf16 |-> TRUE, push_to_hub |-> FALSE,
      report_to |-> "wandb" ]

Lora_c11_args ==
    /\ Goto("lora.c11.args", "lora.c13.max_seq_length")
    /\ heap' = Append(heap, SFTConfig(LoraArgsGiven))
    /\ env' = [env EXCEPT !.args = NewId]
    /\ Called("SFTConfig")
    /\ UNCHANGED <<nb, host, fs, hub, out>>

\* cell 13: max_seq_length = 1512
Lora_c13_max_seq_length ==
    /\ Goto("lora.c13.max_seq_length", "lora.c13.trainer")
    /\ env' = [env EXCEPT !.max_seq_length = 1512]
    /\ UNCHANGED <<nb, host, heap, fs, hub, out, calls>>

\* a variant of cell 13 for C7: peft_config is not handed to the trainer,
\* which then trains and saves the whole model
Lora_c13_trainer_no_peft ==
    /\ Goto("lora.c13.trainer", "lora.c15.train")
    /\ env.model # 0 /\ env.args # 0 /\ env.dataset # 0 /\ env.tokenizer # 0
    /\ heap' = Append(ReadSplit(heap, env.dataset, "train"),
           NewTrainer(env.model, env.args, heap[env.dataset].train, 0,
                      env.tokenizer, 0, TRUE, LoraStepsPerEpoch))
    /\ env' = [env EXCEPT !.trainer = NewId]
    /\ Called("SFTTrainer")
    /\ UNCHANGED <<nb, host, fs, hub, out>>

\* cell 13: trainer = SFTTrainer(model=model, args=args,
\*     train_dataset=dataset["train"], peft_config=peft_config,
\*     max_seq_length=max_seq_length, tokenizer=tokenizer, packing=True, ...)
\* The packed training set gives the recorded 73 steps per epoch.
Lora_c13_trainer ==
    /\ Goto("lora.c13.trainer", "lora.c15.train")
    /\ env.model # 0 /\ env.args # 0 /\ env.dataset # 0
    /\ env.peft_config # 0 /\ env.tokenizer # 0
    /\ LET injected == [ReadSplit(heap, env.dataset, "train") EXCEPT
                            ![env.model].lora = TRUE]
           wrapper == PeftWrapper(env.model, "", 0)
           trainer == NewTrainer(NewId, env.args, heap[env.dataset].train, 0,
                                 env.tokenizer, env.peft_config, TRUE,
                                 LoraStepsPerEpoch)
       IN  heap' = Append(Append(injected, wrapper), trainer)
    /\ env' = [env EXCEPT !.trainer = NewId + 1]
    /\ Called("SFTTrainer")
    /\ UNCHANGED <<nb, host, fs, hub, out>>

\* cell 15: trainer.train(); trainer.save_model(); wandb.finish()
Lora_c15_train == TrainBegin("lora.c15.train", "lora.c15.training")
Lora_c15_step == TrainStep("lora.c15.training")
Lora_c15_trained == TrainEnd("lora.c15.training", "lora.c15.save_model")
Lora_c15_save_model == SaveModel("lora.c15.save_model", "lora.c15.finish", "")

Lora_c15_finish ==
    /\ Goto("lora.c15.finish", "lora.c18.load")
    /\ env.wandb # 0
    /\ heap' = [heap EXCEPT ![env.wandb].finished = TRUE]
    /\ Called("wandb.finish")
    /\ UNCHANGED <<nb, host, env, fs, hub, out>>

\* AutoPeftModelForCausalLM.from_pretrained(dir, torch_dtype=float16): reads
\* the adapter saved in dir, loads the base model the adapter names and puts
\* the adapter on it; two objects, the base model and the PeftModel around it
LoadedPeftModel(h, dir, device) ==
    LET base == [LoadedBaseModel(BaseModelName, device) EXCEPT
                    !.dtype = "float16",
                    !.chat = "tokenizer.json" \in Files(dir, 0),
                    !.lora = TRUE]
        wrapper == [ kind |-> "model", cls |-> "PeftModel", src |-> dir,
                     base |-> Len(h) + 1, chat |-> base.chat,
                     quant |-> "none", dtype |-> "float16",
                     device |-> device,
                     steps |-> FileSteps(dir, "adapter_model.safetensors"),
                     lora |-> TRUE, merged |-> FALSE ]
    IN  Append(Append(h, base), wrapper)

HasAdapter(dir) ==
    {"adapter_model.safetensors", "adapter_config.json"} \subseteq Files(dir, 0)

\* cell 18: model = AutoPeftModelForCausalLM.from_pretrained(
\*     pretrained_model_name_or_path=args.output_dir, ...)
Lora_c18_load ==
    /\ Goto("lora.c18.load", "lora.c18.merge")
    /\ env.args # 0
    /\ HasAdapter(heap[env.args].output_dir)
    /\ heap' = LoadedPeftModel(heap, heap[env.args].output_dir, "cpu")
    /\ env' = [env EXCEPT !.model = NewId + 1]
    /\ Called("AutoPeftModel.from_pretrained")
    /\ UNCHANGED <<nb, host, fs, hub, out>>

\* cell 18: merged_model = model.merge_and_unload(): the adapter is folded
\* into the base model inside the PeftModel, and that base model is returned
Lora_c18_merge ==
    /\ Goto("lora.c18.merge", "lora.c18.save")
    /\ env.model # 0 /\ heap[env.model].cls = "PeftModel"
    /\ LET base == heap[env.model].base
       IN  /\ heap' = [heap EXCEPT ![base].steps = heap[env.model].steps,
                                   ![base].merged = TRUE,
                                   ![base].lora = FALSE]
           /\ env' = [env EXCEPT !.merged_model = base]
    /\ Called("merge_and_unload")
    /\ UNCHANGED <<nb, host, fs, hub, out>>

\* a variant of cell 18 for C8: the merged model is not saved
Lora_c18_no_save ==
    /\ Goto("lora.c18.save", "lora.c21.del")
    /\ UNCHANGED <<nb, host, env, heap, fs, hub, out, calls>>

\* cell 18: merged_model.save_pretrained(args.output_dir, ...)
Lora_c18_save ==
    /\ Goto("lora.c18.save", "lora.c21.del")
    /\ env.merged_model # 0 /\ env.args # 0
    /\ fs' = WriteFiles(fs, heap[env.args].output_dir, 0,
                        ModelFiles(env.merged_model),
                        heap[env.merged_model].steps)
    /\ Called("save_pretrained")
    /\ UNCHANGED <<nb, host, env, heap, hub, out>>

\* cell 21: del model; del trainer; torch.cuda.empty_cache()
Lora_c21_del ==
    /\ Goto("lora.c21.del", "lora.c22.tokenizer")
    /\ env.model # 0 /\ env.trainer # 0
    /\ env' = [env EXCEPT !.model = 0, !.trainer = 0]
    /\ UNCHANGED <<nb, host, heap, fs, hub, out, calls>>

\* cell 22: tokenizer = AutoTokenizer.from_pretrained(finetune_name)
Lora_c22_tokenizer ==
    /\ Goto("lora.c22.tokenizer", "lora.c22.model")
    /\ "tokenizer.json" \in Files(env.finetune_name, 0)
    /\ heap' = Append(heap,
           LoadedTokenizer(env.finetune_name,
                           "chat_template.jinja" \in Files(env.finetune_name, 0)))
    /\ env' = [env EXCEPT !.tokenizer = NewId]
    /\ Called("load_tokenizer")
    /\ UNCHANGED <<nb, host, fs, hub, out>>

\* cell 22: model = AutoPeftModelForCausalLM.from_pretrained(
\*     finetune_name, device_map="auto", torch_dtype=torch.float16)
Lora_c22_model ==
    /\ Goto("lora.c22.model", "lora.c22.pipe")
    /\ HasAdapter(env.finetune_name)
    /\ heap' = LoadedPeftModel(heap, env.finetune_name, env.device)
    /\ env' = [env EXCEPT !.model = NewId + 1]
    /\ Called("AutoPeftModel.from_pretrained")
    /\ UNCHANGED <<nb, host, fs, hub, out>>

\* cell 22: pipe = pipeline("text-generation", model=merged_model,
\*     tokenizer=tokenizer, device=device)
Lora_c22_pipe ==
    /\ Goto("lora.c22.pipe", "lora.c24.prompts")
    /\ env.merged_model # 0 /\ env.tokenizer # 0
    /\ heap' = Append([heap EXCEPT ![env.merged_model].device = env.device],
                      [kind |-> "pipeline", task |-> "text-generation",
                       model |-> env.merged_model,
                       tokenizer |-> env.tokenizer, device |-> env.device])
    /\ env' = [env EXCEPT !.pipe = NewId]
    /\ Called("pipeline")
    /\ UNCHANGED <<nb, host, fs, hub, out>>

\* cell 24: prompts = [...]
Prompts ==
    << "What is the capital of Germany? Explain why thats the case and if it was different in the past?",
       "Write a Python function to calculate the factorial of a number.",
       "A rectangular garden has a length of 25 feet and a width of 15 feet. If you want to build a fence around the entire garden, how many feet of fencing will you need?",
       "What is the difference between a fruit and a vegetable? Give examples of each.",
       "Write a haiku about programming" >>

Lora_c24_prompts ==
    /\ Goto("lora.c24.prompts", "lora.c24.for")
    /\ env' = [env EXCEPT !.prompts = Prompts]
    /\ UNCHANGED <<nb, host, heap, fs, hub, out, calls>>

\* cell 24: def test_inference(prompt): its parameter prompt is a local
\* name, rebound to the templated text; the global prompt is not touched
test_inference(prompt) ==
    LET templated == ApplyChatTemplate(heap[env.pipe].tokenizer,
                                       UserMessage(prompt), FALSE, TRUE)
    IN  Generate(heap[env.pipe].model, templated, 0)

\* cell 24: for i, prompt in enumerate(prompts, 1): the next element, or
\* the end of the loop
Lora_c24_for ==
    /\ pc = "lora.c24.for"
    /\ \/ /\ env.i < Len(env.prompts)
          /\ env' = [env EXCEPT !.i = env.i + 1,
                                !.prompt = env.prompts[env.i + 1]]
          /\ pc' = "lora.c24.print_header"
       \/ /\ env.i >= Len(env.prompts)
          /\ env' = env
          /\ pc' = "lora.c25.shutdown"
    /\ UNCHANGED <<nb, host, heap, fs, hub, out, calls>>

\* the header numbered from 0, as enumerate(prompts) without a start would
Lora_c24_print_header_from_zero ==
    /\ Goto("lora.c24.print_header", "lora.c24.print_prompt")
    /\ out' = Append(out, Printed("header", "Prompt #", env.i - 1, NoGen))
    /\ UNCHANGED <<nb, host, env, heap, fs, hub, calls>>

\* print(f"\n\033[1mPrompt #{i}:\033[0m")
Lora_c24_print_header ==
    /\ Goto("lora.c24.print_header", "lora.c24.print_prompt")
    /\ out' = Append(out, Printed("header", "Prompt #", env.i, NoGen))
    /\ UNCHANGED <<nb, host, env, heap, fs, hub, calls>>

\* print(f"\033[94m{prompt}\033[0m")
Lora_c24_print_prompt ==
    /\ Goto("lora.c24.print_prompt", "lora.c24.print_response_label")
    /\ out' = Append(out, Printed("prompt", env.prompt, 0, NoGen))
    /\ UNCHANGED <<nb, host, env, heap, fs, hub, calls>>

\* print("\n\033[1mResponse:\033[0m")
Lora_c24_print_response_label ==
    PrintLabel("lora.c24.print_response_label", "lora.c24.call", "Response:")

\* response = test_inference(prompt)
Lora_c24_call ==
    /\ Goto("lora.c24.call", "lora.c24.print_response")
    /\ env.pipe # 0
    /\ env' = [env EXCEPT !.response = test_inference(env.prompt)]
    /\ Called("pipe")
    /\ UNCHANGED <<nb, host, heap, fs, hub, out>>

\* print(f"\033[92m{response}\033[0m")
Lora_c24_print_response ==
    /\ Goto("lora.c24.print_response", "lora.c24.print_separator")
    /\ out' = Append(out, Printed("response", "", 0, env.response))
    /\ UNCHANGED <<nb, host, env, heap, fs, hub, calls>>

\* print("\n" + "="*80)
Lora_c24_print_separator ==
    /\ Goto("lora.c24.print_separator", "lora.c24.for")
    /\ out' = Append(out, Printed("separator", "=", SeparatorWidth, NoGen))
    /\ UNCHANGED <<nb, host, env, heap, fs, hub, calls>>

\* cell 25
Lora_c25_shutdown == KernelShutdown("lora.c25.shutdown")

LoraNext ==
    \/ Lora_c2_login \/ Lora_c4_dataset
    \/ Lora_c6_device \/ Lora_c6_model \/ Lora_c6_tokenizer
    \/ Lora_c6_chat_format \/ Lora_c6_names
    \/ Lora_c7_prompt \/ Lora_c7_format \/ Lora_c7_inputs \/ Lora_c7_generate
    \/ Lora_c7_print_label \/ Lora_c7_print_sample
    \/ Lora_c9_wandb \/ Lora_c9_params \/ Lora_c9_peft_config
    \/ Lora_c11_args
    \/ Lora_c13_max_seq_length \/ Lora_c13_trainer
    \/ Lora_c15_train \/ Lora_c15_step \/ Lora_c15_trained
    \/ Lora_c15_save_model \/ Lora_c15_finish
    \/ Lora_c18_load \/ Lora_c18_merge \/ Lora_c18_save
    \/ Lora_c21_del
    \/ Lora_c22_tokenizer \/ Lora_c22_model \/ Lora_c22_pipe
    \/ Lora_c24_prompts \/ Lora_c24_for \/ Lora_c24_print_header
    \/ Lora_c24_print_prompt \/ Lora_c24_print_response_label
    \/ Lora_c24_call \/ Lora_c24_print_response \/ Lora_c24_print_separator
    \/ Lora_c25_shutdown

(***************************************************************************)
(* A fresh kernel on some machine, about to run one of the notebooks.      *)
(***************************************************************************)
Init ==
    /\ nb \in {"sft", "lora"}
    /\ host \in [cuda : BOOLEAN, mps : BOOLEAN]
    /\ pc = IF nb = "sft" THEN "sft.c1.login" ELSE "lora.c2.login"
    /\ env = EmptyEnv
    /\ heap = <<>>
    /\ fs = {}
    /\ hub = {}
    /\ out = <<>>
    /\ calls = <<>>

Next == SftNext \/ LoraNext

Spec == Init /\ [][Next]_vars

(***************************************************************************)
(* Vocabulary of the properties.                                           *)
(***************************************************************************)
Done == pc = "done"

Happened(op) == IndexOf(calls, op) > 0

\* the samples printed right under the line `label`
SamplesUnder(label) ==
    {out[k + 1].gen : k \in {j \in 1..(Len(out) - 1) :
        out[j] = Literal(label) /\ out[j + 1].kind = "sample"}}

\* the responses the test loop of the LoRA notebook printed
Responses == {out[k].gen : k \in {j \in 1..Len(out) : out[j].kind = "response"}}

\* the post-training samples of the notebook
PostTrainingSamples ==
    IF nb = "sft" THEN SamplesUnder("After training:") ELSE Responses

\* the phase of the run a library call belongs to (0: none of them).  The
\* model load of the phases is the load of the base model; loading the saved
\* adapter back (cells 18 and 22 of the LoRA notebook) serves the merge and
\* the inference, and the "Before training" generation is no phase.
PhaseOf(op) ==
    CASE op = "login" -> 1
      [] op \in {"load_dataset", "load_model"} -> 2
      [] op \in {"LoraConfig", "SFTConfig", "SFTTrainer"} -> 3
      [] op \in {"train.begin", "train.end"} -> 4
      [] op = "save_model" -> 5
      [] op = "merge_and_unload" -> 6
      [] OTHER -> 0

\* the last phase before the post-training generation
LastPhaseCall == IF nb = "sft" THEN "save_model" ELSE "merge_and_unload"

PhasesOf(n) == IF n = "sft" THEN 1..5 ELSE 1..6

(***************************************************************************)
(* C1: in each notebook the phases login -> dataset / model load ->        *)
(* training configuration and trainer construction -> trainer.train() ->   *)
(* trainer.save_model() -> (LoRA only) adapter merge -> post-training      *)
(* generation occur in this order: no call of a phase is made after a call *)
(* of a later phase, nothing else is called while trainer.train() runs,    *)
(* every post-training sample is generated after the last of the other     *)
(* phases, and a finished run has gone through every phase.                *)
(***************************************************************************)
C1_PhaseOrder ==
    /\ \A j, k \in 1..Len(calls) :
          (j < k /\ PhaseOf(calls[j]) > 0 /\ PhaseOf(calls[k]) > 0)
              => PhaseOf(calls[j]) <= PhaseOf(calls[k])
    /\ Happened("train.begin") =>
          IF Happened("train.end")
          THEN IndexOf(calls, "train.end") = IndexOf(calls, "train.begin") + 1
          ELSE IndexOf(calls, "train.begin") = Len(calls)
    /\ \A g \in PostTrainingSamples :
          Happened(LastPhaseCall) /\ g.at > LastIndexOf(calls, LastPhaseCall)
    /\ Done =>
          /\ \A ph \in PhasesOf(nb) :
                \E k \in 1..Len(calls) : PhaseOf(calls[k]) = ph
          /\ PostTrainingSamples # {}

C1_Witness ==
    /\ Done /\ nb = "lora"
    /\ Happened("merge_and_unload")
    /\ Cardinality(Responses) = Len(Prompts)

(***************************************************************************)
(* C2: the sample printed under "Before training:" is generated after      *)
(* setup_chat_format has been applied to the model and the tokenizer and   *)
(* before the first call of trainer.train(); every post-training sample is *)
(* generated after trainer.train() has returned.                           *)
(***************************************************************************)
C2_SampleTiming ==
    /\ \A g \in SamplesUnder("Before training:") :
          /\ Happened("setup_chat_format")
          /\ g.at > IndexOf(calls, "setup_chat_format")
          /\ g.chat /\ g.input.template = "chatml"
          /\ Happened("train.begin") => g.at < IndexOf(calls, "train.begin")
          /\ g.steps = 0
    /\ \A g \in PostTrainingSamples :
          /\ Happened("train.end")
          /\ g.at > LastIndexOf(calls, "train.end")

C2_Witness ==
    /\ Done
    /\ SamplesUnder("Before training:") # {}
    /\ PostTrainingSamples # {}

(***************************************************************************)
(* C3: in the SFT notebook the "After training" cell generates from the    *)
(* same prompt, the same chat-template call (tokenize=False) and the same  *)
(* limit (max_new_tokens=100) as the "Before training" cell, with the same *)
(* model object.                                                           *)
(***************************************************************************)
C3_SamePrompt ==
    nb = "sft" =>
        \A b \in SamplesUnder("Before training:") :
        \A a \in SamplesUnder("After training:") :
            /\ a.input = b.input
            /\ a.input.messages = UserMessage(HaikuPrompt)
            /\ a.input.tokenize = FALSE
            /\ a.max_new_tokens = b.max_new_tokens
            /\ a.max_new_tokens = MaxNewTokens
            /\ a.model = b.model
            /\ a.chat = b.chat

C3_Witness ==
    /\ nb = "sft"
    /\ SamplesUnder("Before training:") # {}
    /\ SamplesUnder("After training:") # {}
    /\ \E b \in SamplesUnder("Before training:") :
       \E a \in SamplesUnder("After training:") : a.steps # b.steps

(***************************************************************************)
(* C4: in the SFT notebook, from the construction of the trainer on, the   *)
(* name model is bound to the object that was passed to SFTTrainer: the    *)
(* model is loaded once, and the "After training" generation is made by    *)
(* that object with the weights the training left in it.                   *)
(***************************************************************************)
C4_SameModelObject ==
    (nb = "sft" /\ env.trainer # 0) =>
        /\ env.model = heap[env.trainer].model
        /\ Count(calls, "load_model") = 1
        /\ pc \in {"sft.c14.print_label", "sft.c14.print_sample",
                   "sft.c15.shutdown"} =>
              /\ env.outputs.model = heap[env.trainer].model
              /\ env.outputs.steps = heap[heap[env.trainer].model].steps
              /\ env.outputs.steps = heap[env.trainer].max_steps

C4_Witness ==
    /\ nb = "sft" /\ env.trainer # 0
    /\ pc = "sft.c15.shutdown"
    /\ SamplesUnder("After training:") # {}

(***************************************************************************)
(* C5: in the LoRA notebook trainer.train() trains the model for 3 epochs. *)
(* The statement as the notebook's text makes it; the configuration trains *)
(* for 2.                                                                  *)
(***************************************************************************)
C5_ThreeEpochs ==
    (nb = "lora" /\ env.trainer # 0 /\ heap[env.trainer].state = "trained") =>
        EpochsDone(heap[env.trainer]) = 3

(***************************************************************************)
(* C6: in the LoRA notebook, once trainer.train() and trainer.save_model() *)
(* have run, the model has been saved to the hub and to the output         *)
(* directory.  The statement as the cell's comment makes it; nothing is    *)
(* pushed to the hub.                                                      *)
(***************************************************************************)
C6_SavedToHubAndDir ==
    (nb = "lora" /\ Happened("save_model")) =>
        /\ HasAdapter(LoraFinetuneName)
        /\ \E f \in hub : f.file \in {"adapter_model.safetensors",
                                      "model.safetensors"}

(***************************************************************************)
(* C7, as stated: in the LoRA notebook no full copy of the model weights   *)
(* is ever written to the training output directory.                       *)
(***************************************************************************)
FullCopies == {f \in fs : f.file = "model.safetensors"}

C7_NeverFullCopy == nb = "lora" => FullCopies = {}

(***************************************************************************)
(* C7, amended: in the LoRA notebook the training and trainer.save_model() *)
(* write adapter weights only, in the checkpoints as in the output         *)
(* directory; the one full copy of the weights the run writes there is the *)
(* merged model that the merge cell saves with save_pretrained.            *)
(***************************************************************************)
C7_AdapterOnlyUntilMerge ==
    nb = "lora" =>
        /\ \A f \in FullCopies :
              /\ Happened("save_pretrained")
              /\ f.dir = LoraFinetuneName /\ f.sub = 0
        /\ \A f \in fs : f.sub # 0 => f.file # "model.safetensors"
        /\ Happened("save_model") =>
              "adapter_model.safetensors" \in Files(LoraFinetuneName, 0)

C7_Witness ==
    /\ nb = "lora" /\ pc = "lora.c18.merge"
    /\ HasAdapter(LoraFinetuneName)
    /\ \E f \in fs : f.sub # 0 /\ f.file = "adapter_model.safetensors"
    /\ FullCopies = {}

(***************************************************************************)
(* C8: in the LoRA notebook the merge works on the trained adapter: the    *)
(* PeftModel is loaded from args.output_dir and merged only after          *)
(* trainer.train() and trainer.save_model() have written the adapter       *)
(* there, the adapter it merges carries all the steps of the training, the *)
(* merge runs once, and the merged model is saved once, as one model,      *)
(* with save_pretrained.                                                   *)
(***************************************************************************)
C8_MergeAfterSave ==
    nb = "lora" =>
        /\ Happened("merge_and_unload") =>
              /\ Happened("train.end") /\ Happened("save_model")
              /\ IndexOf(calls, "train.end") < IndexOf(calls, "save_model")
              /\ IndexOf(calls, "save_model")
                    < IndexOf(calls, "AutoPeftModel.from_pretrained")
              /\ IndexOf(calls, "AutoPeftModel.from_pretrained")
                    < IndexOf(calls, "merge_and_unload")
              /\ Count(calls, "merge_and_unload") = 1
        /\ env.merged_model # 0 =>
              /\ heap[env.merged_model].merged
              /\ heap[env.merged_model].steps
                    = heap[env.args].num_train_epochs * LoraStepsPerEpoch
              /\ heap[env.merged_model].steps
                    = FileSteps(LoraFinetuneName, "adapter_model.safetensors")
        /\ Happened("save_pretrained") =>
              /\ IndexOf(calls, "merge_and_unload")
                    < IndexOf(calls, "save_pretrained")
              /\ Count(calls, "save_pretrained") = 1
              /\ \E f \in FullCopies :
                    /\ f.dir = LoraFinetuneName /\ f.sub = 0
                    /\ f.steps = FileSteps(LoraFinetuneName,
                                           "adapter_model.safetensors")
        /\ Done => Happened("merge_and_unload") /\ Happened("save_pretrained")

C8_Witness ==
    /\ nb = "lora" /\ pc = "lora.c21.del"
    /\ env.merged_model # 0
    /\ Happened("save_pretrained")

(***************************************************************************)
(* C9: in the LoRA notebook the base model that is fine-tuned is loaded in *)
(* 4-bit quantized form.  The statement as the notebook's text makes it;   *)
(* the model is loaded without any quantization.                           *)
(***************************************************************************)
C9_FourBitBase ==
    (nb = "lora" /\ env.trainer # 0) =>
        LET tuned == heap[heap[env.trainer].model]
        IN  /\ tuned.quant = "4bit"
            /\ heap[tuned.base].quant = "4bit"

(***************************************************************************)
(* C10: in the LoRA notebook the text-generation pipeline runs the model   *)
(* that the same cell loaded with the PEFT adapter, the object bound to    *)
(* model.  The statement as the cell's comment makes it; the pipeline is   *)
(* given merged_model.                                                     *)
(***************************************************************************)
C10_PipeRunsAdapterModel ==
    (nb = "lora" /\ env.pipe # 0) =>
        /\ env.model # 0
        /\ heap[env.pipe].model = env.model

(***************************************************************************)
(* C11: in the LoRA notebook the post-training test loads its samples from *)
(* the original dataset and evaluates the model on them in a loop, with    *)
(* accuracy as the metric.  The statement as the notebook's text makes it; *)
(* the loop runs on five prompts written out in the cell, takes nothing    *)
(* from the dataset and computes no metric.                                *)
(***************************************************************************)
C11_TestOnDatasetWithAccuracy ==
    (nb = "lora" /\ pc = "lora.c25.shutdown") =>
        /\ Responses # {}
        /\ \E k \in 1..Len(heap[env.dataset].reads) :
              heap[env.dataset].reads[k].at > IndexOf(calls, "train.end")
        /\ \E k \in 1..Len(out) : out[k].kind = "accuracy"

(***************************************************************************)
(* C12: in the SFT notebook the model is evaluated on ds["test"] during    *)
(* the training, once every eval_steps = 50 steps.  The statement as the   *)
(* comments of the configuration make it; with evaluation_strategy         *)
(* commented out the trainer never evaluates.                              *)
(***************************************************************************)
C12_EvaluatedEvery50 ==
    (nb = "sft" /\ env.trainer # 0) =>
        LET t == heap[env.trainer]
        IN  /\ t.eval_rows = TestRows
            /\ t.evaluated = {k \in 1..t.global_step : k % 50 = 0}

(***************************************************************************)
(* C13: in the SFT notebook the training stops after exactly max_steps =   *)
(* 1000 optimizer steps, whatever the epoch count; a metrics record is     *)
(* logged at every step that is a multiple of 10 and at no other (100      *)
(* records, the last at step 1000) and a checkpoint is saved at every step *)
(* that is a multiple of 100 and at no other (10 checkpoints).             *)
(***************************************************************************)
CheckpointFolders(dir) == {f.sub : f \in {g \in fs : g.dir = dir /\ g.sub # 0}}

C13_StepsLogsCheckpoints ==
    (nb = "sft" /\ env.trainer # 0) =>
        LET t == heap[env.trainer]
            a == heap[t.args]
        IN  /\ t.global_step <= 1000
            /\ t.state # "new" =>
                  /\ t.max_steps = 1000
                  /\ t.max_steps # a.num_train_epochs * t.steps_per_epoch
            /\ t.logged = {k \in 1..t.global_step : k % 10 = 0}
            /\ t.saved = {k \in 1..t.global_step : k % 100 = 0}
            /\ CheckpointFolders(SftOutputDir) = t.saved
            /\ heap[t.model].steps = t.global_step
            /\ t.state = "trained" =>
                  /\ t.global_step = 1000
                  /\ Cardinality(t.logged) = 100 /\ 1000 \in t.logged
                  /\ Cardinality(t.saved) = 10 /\ 1000 \in t.saved

C13_Witness ==
    /\ nb = "sft" /\ pc = "sft.c11.save_model"
    /\ env.trainer # 0
    /\ heap[env.trainer].state = "trained"
    /\ heap[env.trainer].global_step = 1000

(***************************************************************************)
(* C14: in the LoRA notebook the rank, alpha and dropout of the LoraConfig *)
(* handed to the trainer are the values set under the "Configure LoRA      *)
(* parameters" comments: r = rank_dimension = 6, lora_alpha = 8 and        *)
(* lora_dropout = 0.05.  The statement as the cell's comments make it; the *)
(* LoraConfig takes wandb.config's 16, 32 and 0.1.                         *)
(***************************************************************************)
C14_LoraConfigFromParams ==
    (nb = "lora" /\ env.peft_config # 0) =>
        LET c == heap[env.peft_config]
        IN  /\ c.r = env.rank_dimension /\ c.r = 6
            /\ c.lora_alpha = env.lora_alpha /\ c.lora_alpha = 8
            /\ c.lora_dropout = env.lora_dropout /\ c.lora_dropout = 5
            /\ env.trainer # 0 =>
                  heap[env.trainer].peft_config = env.peft_config

(***************************************************************************)
(* C15: in the LoRA notebook the learning rate is warmed up over the first *)
(* 3% of the training steps and is kept at 2e-4 for every step after the   *)
(* warmup.  The statement as the comments of the configuration make it;    *)
(* the "constant" schedule takes no warmup and the rate is 2e-4 from the   *)
(* first step on.                                                          *)
(***************************************************************************)
C15_WarmupThenConstant ==
    (nb = "lora" /\ env.trainer # 0 /\ heap[env.trainer].global_step >= 1) =>
        LET t == heap[env.trainer]
        IN  IF t.global_step <= CeilDiv(t.max_steps * 3, 100)
            THEN t.lr < 200000
            ELSE t.lr = 200000

\* what the test loop of the LoRA notebook printed: the output from the first
\* header on
LoopOutput ==
    LET headers == {k \in 1..Len(out) : out[k].kind = "header"}
    IN  IF headers = {} THEN <<>>
        ELSE SubSeq(out, CHOOSE k \in headers : \A j \in headers : k <= j,
                    Len(out))

\* the number of lines the test loop has printed when control is at a
\* statement of its i-th round
LoopLinesAt(at, i) ==
    CASE at = "lora.c24.print_header" -> 5 * (i - 1)
      [] at = "lora.c24.print_prompt" -> 5 * (i - 1) + 1
      [] at = "lora.c24.print_response_label" -> 5 * (i - 1) + 2
      [] at \in {"lora.c24.call", "lora.c24.print_response"} -> 5 * (i - 1) + 3
      [] at = "lora.c24.print_separator" -> 5 * (i - 1) + 4
      [] OTHER -> 5 * i

(***************************************************************************)
(* C16: the test loop of the LoRA notebook handles the prompts in list     *)
(* order and once each: round i = 1..5 prints the header "Prompt #i", the  *)
(* i-th element of the list as it stands in the list, the label, one       *)
(* response (generated from the chat-templated i-th prompt) and a          *)
(* separator of 80 '='; test_inference leaves the list and the loop        *)
(* variable as they were.                                                  *)
(***************************************************************************)
C16_LoopInOrderOnce ==
    (nb = "lora" /\ env.prompts # <<>>) =>
        LET loop == LoopOutput
        IN  /\ env.prompts = Prompts
            /\ env.i \in 0..Len(Prompts)
            /\ env.i >= 1 => env.prompt = Prompts[env.i]
            /\ Len(loop) = LoopLinesAt(pc, env.i)
            /\ pc = "lora.c25.shutdown" => env.i = Len(Prompts)
            /\ pc = "lora.c24.print_response" =>
                  /\ env.response.input.messages = UserMessage(Prompts[env.i])
                  /\ env.response.at = Len(calls)
            /\ \A k \in 1..Len(loop) :
                  LET i == ((k - 1) \div 5) + 1
                      line == loop[k]
                  IN  CASE (k - 1) % 5 = 0 ->
                             line = Printed("header", "Prompt #", i, NoGen)
                        [] (k - 1) % 5 = 1 ->
                             line = Printed("prompt", Prompts[i], 0, NoGen)
                        [] (k - 1) % 5 = 2 -> line = Literal("Response:")
                        [] (k - 1) % 5 = 3 ->
                             /\ line.kind = "response"
                             /\ line.gen.input.messages = UserMessage(Prompts[i])
                             /\ line.gen.input.generation_prompt
                             /\ ~line.gen.input.tokenize
                             /\ \A j \in 1..Len(loop) :
                                   (loop[j].kind = "response"
                                    /\ loop[j].gen = line.gen) => j = k
                        [] OTHER ->
                             line = Printed("separator", "=", 80, NoGen)

C16_Witness ==
    /\ nb = "lora" /\ pc = "lora.c25.shutdown"
    /\ Len(LoopOutput) = 5 * Len(Prompts)
    /\ Cardinality(Responses) = Len(Prompts)
    /\ out[Len(out)].kind = "separator"
    /\ env.prompt = Prompts[Len(Prompts)]

====
